---------------------------- MODULE Spec2Model ----------------------------
(***************************************************************************)
(* queriable_storage: an in-memory store of records, ordered indices over  *)
(* caller-chosen keys, and DataFilters (sorted position lists) that are    *)
(* combined with & and | and turned back into records by store.filter.     *)
(*                                                                         *)
(* Positions are zero-based as in the code (usize); TLA+ sequences are     *)
(* one-based, so the record at position v is items[v + 1].                 *)
(***************************************************************************)
EXTENDS Integers, Sequences, FiniteSets, TLC

\* Largest number of records in a store.
MaxLen == 3
\* Keys produced by an index_provider are 0 .. MaxKey.
MaxKey == 2

VARIABLES
    items,      \* QueriableDataStore.items: the records, in insertion order
    built,      \* TRUE once get_index has returned an index
    provider,   \* the index_provider closure of that index: record -> key
    pairs,      \* SortedIndex.pairs: key -> positions (the BTreeMap)
    op,         \* name of the last operation that ran
    arg,        \* its arguments
    flt,        \* DataFilter.indices returned by the last index query
    out,        \* what store.filter yielded: a sequence of record references
    panicked,   \* TRUE once an operation has panicked (the run is over)
    a, b,       \* DataFilters held as operands of & and |
    r           \* DataFilter returned by the last & or |

vars == <<items, built, provider, pairs, op, arg, flt, out, panicked, a, b, r>>

-----------------------------------------------------------------------------
(* Data *)

Keys == 0 .. MaxKey

\* Keys of a bool-valued index_provider (false < true), written 0 and 1.
FlagKeys == {0, 1}

\* The record stored at position v. The library never looks inside a record
\* (T is unconstrained): records are distinct opaque tokens here, and none
\* is equal to a position.
RecordAt(v) == 100 - v

\* The store built by QueriableDataStore::from(vec) from a vector of n records.
StoreOf(n) == [i \in 1 .. n |-> RecordAt(i - 1)]

Range(s) == {s[i] : i \in 1 .. Len(s)}

\* std::ops::Bound
Unbounded == <<"Unbounded">>
Included(v) == <<"Included", v>>
Excluded(v) == <<"Excluded", v>>

Bounds(K) == {Unbounded} \cup {Included(v) : v \in K} \cup {Excluded(v) : v \in K}

-----------------------------------------------------------------------------
(* BTreeMap *)

\* Iteration order of a BTreeMap over the key set S: ascending keys.
RECURSIVE KeyOrder(_)
KeyOrder(S) ==
    IF S = {} THEN << >>
    ELSE LET m == CHOOSE x \in S : \A y \in S : x <= y
         IN  <<m>> \o KeyOrder(S \ {m})

\* entry_push with the group replaced instead of extended (insert for push).
entry_push_overwrite(map, key, index) ==
    [k \in (DOMAIN map) \cup {key} |-> IF k = key THEN <<index>> ELSE map[k]]

\* pairs.entry(key).or_insert_with(|| vec![]).push(index)
entry_push(map, key, index) ==
    [k \in (DOMAIN map) \cup {key} |->
        IF k = key
        THEN (IF key \in DOMAIN map THEN Append(map[key], index) ELSE <<index>>)
        ELSE map[k]]

\* BTreeMap::range panics when start > end, and when start = end and both
\* bounds are Excluded.
range_invalid(range) ==
    LET lo == range[1]
        hi == range[2]
    IN  /\ lo # Unbounded
        /\ hi # Unbounded
        /\ \/ lo[2] > hi[2]
           \/ lo[2] = hi[2] /\ lo[1] = "Excluded" /\ hi[1] = "Excluded"

\* Whether BTreeMap::range(range) panics on map: the possible answers. On a
\* map that never held an entry the standard library either makes the same
\* check or returns an empty iterator without making it, depending on its
\* version (the root node is allocated lazily in later versions).
range_panics(map, range) ==
    IF ~range_invalid(range) THEN {FALSE}
    ELSE IF DOMAIN map = {} THEN {FALSE, TRUE}
    ELSE {TRUE}

in_range(range, k) ==
    LET lo == range[1]
        hi == range[2]
    IN  /\ CASE lo[1] = "Unbounded" -> TRUE
             [] lo[1] = "Included"  -> lo[2] <= k
             [] lo[1] = "Excluded"  -> lo[2] < k
        /\ CASE hi[1] = "Unbounded" -> TRUE
             [] hi[1] = "Included"  -> k <= hi[2]
             [] hi[1] = "Excluded"  -> k < hi[2]

\* The keys BTreeMap::range(range) visits, in the order it visits them.
btree_range(map, range) == KeyOrder({k \in DOMAIN map : in_range(range, k)})

\* flat_map taking one position of each group instead of the whole group.
RECURSIVE flat_map_first(_, _)
flat_map_first(map, keys) ==
    IF keys = << >> THEN << >>
    ELSE <<map[Head(keys)][1]>> \o flat_map_first(map, Tail(keys))

\* .flat_map(|(_, indices)| indices.iter().cloned()) over a key sequence
RECURSIVE flat_map(_, _)
flat_map(map, keys) ==
    IF keys = << >> THEN << >>
    ELSE map[Head(keys)] \o flat_map(map, Tail(keys))

-----------------------------------------------------------------------------
(* DataFilter *)

\* Vec::sort: ascending, equal elements kept.
RECURSIVE insert_sorted(_, _)
insert_sorted(s, x) ==
    IF s = << >> THEN <<x>>
    ELSE IF x < Head(s) THEN <<x>> \o s
    ELSE <<Head(s)>> \o insert_sorted(Tail(s), x)

RECURSIVE sort(_)
sort(s) == IF s = << >> THEN << >> ELSE insert_sorted(sort(Tail(s)), Head(s))

\* from_unsorted without the sort.
from_unsorted_nosort(unsorted_indices) == unsorted_indices

\* DataFilter::from_unsorted: collect, then sort
from_unsorted(unsorted_indices) == sort(unsorted_indices)

\* DataFilter::default()
default == << >>

\* bitand_skip that never advances other's iterator.
bitand_skip_none(other, j, index) == j

\* bitand_skip that also steps over a position equal to index (<= for <).
RECURSIVE bitand_skip_le(_, _, _)
bitand_skip_le(other, j, index) ==
    IF j <= Len(other) /\ other[j] <= index
    THEN bitand_skip_le(other, j + 1, index)
    ELSE j

\* BitAnd: for each index of self, skip the smaller positions of other, then
\* push index if other's next position is index. j is other's iterator.
RECURSIVE bitand_skip(_, _, _)
bitand_skip(other, j, index) ==
    IF j <= Len(other) /\ other[j] < index
    THEN bitand_skip(other, j + 1, index)
    ELSE j

RECURSIVE bitand_loop(_, _, _, _, _)
bitand_loop(self, other, i, j, indices) ==
    IF i > Len(self) THEN indices
    ELSE LET index == self[i]
             j2 == bitand_skip(other, j, index)
         IN  bitand_loop(self, other, i + 1, j2,
                 IF j2 <= Len(other) /\ other[j2] = index
                 THEN Append(indices, index)
                 ELSE indices)

bitand(self, other) == bitand_loop(self, other, 1, 1, << >>)

\* bitor_inner that stops at a position equal to index instead of stepping
\* over it.
RECURSIVE bitor_inner_keep_equal(_, _, _, _)
bitor_inner_keep_equal(other, j, index, indices) ==
    IF j <= Len(other) /\ other[j] < index
    THEN bitor_inner_keep_equal(other, j + 1, index, Append(indices, other[j]))
    ELSE <<j, indices>>

\* BitOr's inner loop: push other's positions below index, step over one
\* equal to index, stop at a larger one. Returns <<j, indices>>.
RECURSIVE bitor_inner(_, _, _, _)
bitor_inner(other, j, index, indices) ==
    IF j <= Len(other)
    THEN IF other[j] < index
         THEN bitor_inner(other, j + 1, index, Append(indices, other[j]))
         ELSE IF other[j] = index
         THEN bitor_inner(other, j + 1, index, indices)
         ELSE <<j, indices>>
    ELSE <<j, indices>>

RECURSIVE bitor_loop(_, _, _, _, _)
bitor_loop(self, other, i, j, indices) ==
    IF i > Len(self)
    THEN \* for index in other_iterator { indices.push(index) }
         indices \o SubSeq(other, j, Len(other))
    ELSE LET index == self[i]
             st == bitor_inner(other, j, index, indices)
         IN  bitor_loop(self, other, i + 1, st[1], Append(st[2], index))

\* bitor that appends other's unseen positions after self instead of merging.
bitor_append(self, other) ==
    self \o SelectSeq(other, LAMBDA v : \A i \in 1 .. Len(self) : self[i] # v)

bitor(self, other) == bitor_loop(self, other, 1, 1, << >>)

-----------------------------------------------------------------------------
(* SortedIndex *)

\* SortedIndex::new: one pass over data_store.items().enumerate()
RECURSIVE new_loop(_, _, _, _)
new_loop(store, index_provider, index, map) ==
    IF index >= Len(store) THEN map
    ELSE new_loop(store, index_provider, index + 1,
             entry_push(map, index_provider[store[index + 1]], index))

SortedIndex_new(store, index_provider) == new_loop(store, index_provider, 0, << >>)

\* What a call returns: a value, or a panic.
Ok(x) == <<"Ok", x>>
Panic == <<"Panic">>

\* Every SortedIndex method below is the set of outcomes the call can have
\* (one outcome, except where range_panics has two answers).
filter_range(map, range) ==
    {IF p THEN Panic
          ELSE Ok(from_unsorted(flat_map(map, btree_range(map, range))))
       : p \in range_panics(map, range)}

filter_between(map, lower_inclusive, upper_inclusive) ==
    filter_range(map, <<Included(lower_inclusive), Included(upper_inclusive)>>)

filter_eq(map, value) ==
    IF value \in DOMAIN map
    THEN {Ok(from_unsorted(map[value]))}
    ELSE {Ok(default)}

filter_gt(map, lower_limit) == filter_range(map, <<Excluded(lower_limit), Unbounded>>)

filter_gte(map, lower_limit) == filter_range(map, <<Included(lower_limit), Unbounded>>)

filter_lt(map, upper_limit) == filter_range(map, <<Unbounded, Excluded(upper_limit)>>)

filter_lte(map, upper_limit) == filter_range(map, <<Unbounded, Included(upper_limit)>>)

\* first_n / last_n / first / last (called by tests/test.rs; their bodies are
\* not in src/src/lib.rs): the groups of the n smallest (largest) keys,
\* whole, re-sorted by position.
Take(s, n) == SubSeq(s, 1, IF n < Len(s) THEN n ELSE Len(s))

Reverse(s) == [i \in 1 .. Len(s) |-> s[Len(s) + 1 - i]]

first_n(map, n) == {Ok(from_unsorted(flat_map(map, Take(KeyOrder(DOMAIN map), n))))}

last_n(map, n) ==
    {Ok(from_unsorted(flat_map(map, Take(Reverse(KeyOrder(DOMAIN map)), n))))}

first(map) == first_n(map, 1)

last(map) == last_n(map, 1)

-----------------------------------------------------------------------------
(* QueriableDataStore *)

\* &self.items[v]: a reference to the record at position v
Ref(store, v) == [at |-> v, val |-> store[v + 1]]

\* filter walking the positions from the back.
filter_reversed(store, indices) ==
    {Ok([i \in 1 .. Len(indices) |-> [at |-> indices[Len(indices) + 1 - i],
                                       val |-> store[indices[Len(indices) + 1 - i] + 1]]])}

\* QueriableDataStore::filter, collected: indexing past the end panics.
filter(store, indices) ==
    IF \E i \in 1 .. Len(indices) : indices[i] >= Len(store)
    THEN {Panic}
    ELSE {Ok([i \in 1 .. Len(indices) |-> Ref(store, indices[i])])}

\* QueriableDataStore::get_index
get_index(store, index_provider) == SortedIndex_new(store, index_provider)

\* N-ary conjunction of a collection of DataFilters (spec 4.3; not in
\* src/src/lib.rs): sort the sets by ascending cardinality, drive from the
\* smallest, advance every other set's cursor forward to the candidate and
\* accept the candidate when every cursor lands on it.
RECURSIVE insert_by_len(_, _)
insert_by_len(sets, x) ==
    IF sets = << >> THEN <<x>>
    ELSE IF Len(x) < Len(Head(sets)) THEN <<x>> \o sets
    ELSE <<Head(sets)>> \o insert_by_len(Tail(sets), x)

RECURSIVE sort_by_len(_)
sort_by_len(sets) ==
    IF sets = << >> THEN << >>
    ELSE insert_by_len(sort_by_len(Tail(sets)), Head(sets))

RECURSIVE advance(_, _, _)
advance(set, cursor, candidate) ==
    IF cursor <= Len(set) /\ set[cursor] < candidate
    THEN advance(set, cursor + 1, candidate)
    ELSE cursor

RECURSIVE conjunction_loop(_, _, _, _)
conjunction_loop(sets, i, cursors, indices) ==
    IF i > Len(sets[1]) THEN indices
    ELSE LET candidate == sets[1][i]
             moved == [k \in DOMAIN cursors |->
                          IF k = 1 THEN i ELSE advance(sets[k], cursors[k], candidate)]
             hit == \A k \in DOMAIN cursors :
                        moved[k] <= Len(sets[k]) /\ sets[k][moved[k]] = candidate
         IN  conjunction_loop(sets, i + 1, moved,
                 IF hit THEN Append(indices, candidate) ELSE indices)

conjunction(filters) ==
    IF filters = << >> THEN default
    ELSE LET sets == sort_by_len(filters)
         IN  conjunction_loop(sets, 1, [k \in 1 .. Len(sets) |-> 1], << >>)

\* store.filter(collection): the conjunction, materialized
filter_all(store, filters) == filter(store, conjunction(filters))

-----------------------------------------------------------------------------
(* The program: a store is built, an index is derived from it, queries   *)
(* return DataFilters, and store.filter consumes one.                    *)

\* Every index_provider a caller can pass, as far as the index can tell: a
\* key from K for each record of the store.
IndexProviders(store, K) == [Range(store) -> K]

\* A store of each length, the longest first.
Init ==
    /\ \E n \in 0 .. MaxLen : items = StoreOf(MaxLen - n)
    /\ built = FALSE
    /\ provider = << >>
    /\ pairs = << >>
    /\ op = "from"
    /\ arg = << >>
    /\ flt = default
    /\ out = << >>
    /\ panicked = FALSE
    /\ a = default
    /\ b = default
    /\ r = default

\* A running program that has not handed its filter to store.filter yet.
Running == ~panicked /\ op # "filter"

\* let index = store.get_index(index_provider): the one index this program
\* queries (the program of SpecAlgebra builds an index per operand).
GetIndex(index_provider) ==
    /\ Running
    /\ ~built
    /\ built' = TRUE
    /\ provider' = index_provider
    /\ pairs' = get_index(items, index_provider)
    /\ op' = "get_index"
    /\ arg' = << >>
    /\ UNCHANGED <<items, flt, out, panicked, a, b, r>>

\* let flt = index.<name>(args), with outcome o: a panic leaves flt unbound
Returned(name, args, o) ==
    /\ Running
    /\ built
    /\ op' = name
    /\ arg' = args
    /\ IF o = Panic
       THEN panicked' = TRUE /\ flt' = default
       ELSE panicked' = FALSE /\ flt' = o[2]
    /\ UNCHANGED <<items, built, provider, pairs, out, a, b, r>>

FilterRange(lo, hi) ==
    \E o \in filter_range(pairs, <<lo, hi>>) : Returned("filter_range", <<lo, hi>>, o)

FilterBetween(l, u) ==
    \E o \in filter_between(pairs, l, u) : Returned("filter_between", <<l, u>>, o)

FilterEq(v) == \E o \in filter_eq(pairs, v) : Returned("filter_eq", <<v>>, o)

FilterGt(v) == \E o \in filter_gt(pairs, v) : Returned("filter_gt", <<v>>, o)

FilterGte(v) == \E o \in filter_gte(pairs, v) : Returned("filter_gte", <<v>>, o)

FilterLt(v) == \E o \in filter_lt(pairs, v) : Returned("filter_lt", <<v>>, o)

FilterLte(v) == \E o \in filter_lte(pairs, v) : Returned("filter_lte", <<v>>, o)

FirstN(n) == \E o \in first_n(pairs, n) : Returned("first_n", <<n>>, o)

LastN(n) == \E o \in last_n(pairs, n) : Returned("last_n", <<n>>, o)

First == \E o \in first(pairs) : Returned("first", << >>, o)

Last == \E o \in last(pairs) : Returned("last", << >>, o)

\* store.filter(flt).collect(), with outcome o: the filter is moved into
\* the call.
Yielded(args, o) ==
    /\ Running
    /\ op' = "filter"
    /\ arg' = args
    /\ IF o = Panic
       THEN panicked' = TRUE /\ out' = << >>
       ELSE panicked' = FALSE /\ out' = o[2]
    /\ UNCHANGED <<items, built, provider, pairs, flt, a, b, r>>

Filter == \E o \in filter(items, flt) : Yielded(<<"flt">>, o)

\* The yielded references and the consumed filters go out of scope; the
\* store and the index stay.
Drop ==
    /\ ~panicked
    /\ op = "filter"
    /\ op' = "drop"
    /\ arg' = << >>
    /\ flt' = default
    /\ out' = << >>
    /\ a' = default
    /\ b' = default
    /\ r' = default
    /\ UNCHANGED <<items, built, provider, pairs, panicked>>

Next ==
    \/ \E f \in IndexProviders(items, Keys) : GetIndex(f)
    \/ \E lo, hi \in Bounds(Keys) : FilterRange(lo, hi)
    \/ \E l, u \in Keys : FilterBetween(l, u)
    \/ \E v \in Keys : FilterEq(v)
    \/ \E v \in Keys : FilterGt(v)
    \/ \E v \in Keys : FilterGte(v)
    \/ \E v \in Keys : FilterLt(v)
    \/ \E v \in Keys : FilterLte(v)
    \/ \E n \in 0 .. MaxLen : FirstN(n)
    \/ \E n \in 0 .. MaxLen : LastN(n)
    \/ First
    \/ Last
    \/ Filter
    \/ Drop

Spec == Init /\ [][Next]_vars

-----------------------------------------------------------------------------
(* The program combining filters: operands come from queries on indices  *)
(* of the one store, & and | combine them, store.filter consumes them.   *)
(* An operand stays readable after it was combined: the program can      *)
(* always evaluate the query that produced it again.                     *)

\* A query on an index: <<method, arguments...>>
Queries(K) ==
    {<<"filter_eq", v>> : v \in K}
    \cup {<<"filter_range", lo, hi>> : lo \in Bounds(K), hi \in Bounds(K)}
    \cup {<<"filter_between", l, u>> : l \in K, u \in K}
    \cup {<<m, v>> : m \in {"filter_gt", "filter_gte", "filter_lt", "filter_lte"}, v \in K}

Call(map, q) ==
    CASE q[1] = "filter_eq"      -> filter_eq(map, q[2])
      [] q[1] = "filter_range"   -> filter_range(map, <<q[2], q[3]>>)
      [] q[1] = "filter_between" -> filter_between(map, q[2], q[3])
      [] q[1] = "filter_gt"      -> filter_gt(map, q[2])
      [] q[1] = "filter_gte"     -> filter_gte(map, q[2])
      [] q[1] = "filter_lt"      -> filter_lt(map, q[2])
      [] q[1] = "filter_lte"     -> filter_lte(map, q[2])

\* let a = store.get_index(index_provider).<q>
Operand(index_provider, q) ==
    /\ Running
    /\ \E o \in Call(get_index(items, index_provider), q) :
          IF o = Panic
          THEN panicked' = TRUE /\ a' = default
          ELSE panicked' = FALSE /\ a' = o[2]
    /\ op' = "operand"
    /\ arg' = << >>
    /\ UNCHANGED <<items, built, provider, pairs, flt, out, b, r>>

\* let b = a
Save ==
    /\ Running
    /\ b' = a
    /\ op' = "save"
    /\ arg' = << >>
    /\ UNCHANGED <<items, built, provider, pairs, flt, out, panicked, a, r>>

\* let a = r: the result of a combination becomes an operand (nesting)
Keep ==
    /\ Running
    /\ a' = r
    /\ op' = "keep"
    /\ arg' = << >>
    /\ UNCHANGED <<items, built, provider, pairs, flt, out, panicked, b, r>>

Reg(x) == CASE x = "a" -> a [] x = "b" -> b [] x = "r" -> r

\* let r = x & y
BitAnd(x, y) ==
    /\ Running
    /\ r' = bitand(Reg(x), Reg(y))
    /\ op' = "bitand"
    /\ arg' = <<x, y>>
    /\ UNCHANGED <<items, built, provider, pairs, flt, out, panicked, a, b>>

\* let r = x | y
BitOr(x, y) ==
    /\ Running
    /\ r' = bitor(Reg(x), Reg(y))
    /\ op' = "bitor"
    /\ arg' = <<x, y>>
    /\ UNCHANGED <<items, built, provider, pairs, flt, out, panicked, a, b>>

\* The collections store.filter is handed: up to three of a, b, r, in any
\* order.
Selections ==
    {s \in UNION {[1 .. k -> {"a", "b", "r"}] : k \in 0 .. 3} :
        \A i, j \in DOMAIN s : i # j => s[i] # s[j]}

Filters(sel) == [i \in DOMAIN sel |-> Reg(sel[i])]

\* store.filter(collection).collect()
FilterAll(sel) == \E o \in filter_all(items, Filters(sel)) : Yielded(sel, o)

NextAlgebra ==
    \/ \E f \in IndexProviders(items, FlagKeys), q \in Queries(FlagKeys) : Operand(f, q)
    \/ Save
    \/ Keep
    \/ \E x, y \in {"a", "b"} : BitAnd(x, y)
    \/ \E x, y \in {"a", "b"} : BitOr(x, y)
    \/ \E sel \in Selections : FilterAll(sel)
    \/ Drop

SpecAlgebra == Init /\ [][NextAlgebra]_vars

-----------------------------------------------------------------------------
(* Vocabulary of the properties *)

\* The positions of the store.
Positions == 0 .. Len(items) - 1

\* The key the index in use gives the record at position v.
KeyAt(v) == provider[items[v + 1]]

\* The ascending sequence of the positions in S: its i-th element is the
\* one with i - 1 elements of S below it.
Ascending(S) ==
    [i \in 1 .. Cardinality(S) |->
        CHOOSE x \in S : Cardinality({y \in S : y < x}) = i - 1]

\* s is a position set of the store: strictly ascending (hence without
\* duplicates), every position in [0, n).
IsPositionSet(s) ==
    /\ \A i \in 1 .. Len(s) : s[i] \in Positions
    /\ \A i \in 1 .. Len(s) - 1 : s[i] < s[i + 1]

\* k satisfies a lower (upper) bound.
AboveLower(lo, k) ==
    \/ lo = Unbounded
    \/ lo[1] = "Included" /\ k >= lo[2]
    \/ lo[1] = "Excluded" /\ k > lo[2]

BelowUpper(hi, k) ==
    \/ hi = Unbounded
    \/ hi[1] = "Included" /\ k <= hi[2]
    \/ hi[1] = "Excluded" /\ k < hi[2]

\* The value of a call that has one outcome and does not panic.
ValueOf(outcomes) == (CHOOSE o \in outcomes : TRUE)[2]

-----------------------------------------------------------------------------
(* Properties *)

\* C1: every DataFilter a query or a nesting of & and | produces is strictly
\* ascending, duplicate-free, and holds only positions in [0, n).
C1_PositionSetInvariant ==
    /\ IsPositionSet(a)
    /\ IsPositionSet(b)
    /\ IsPositionSet(r)

\* C1 witness: a union of two query results that interleave.
C1_Witness ==
    /\ op = "bitor"
    /\ a = <<0, 2>>
    /\ b = <<1>>
    /\ r = <<0, 1, 2>>

\* C2: filter_range returns normally, for every pair of bounds, exactly the
\* positions whose key satisfies both bounds, in ascending order.
C2_RangeExactAndTotal ==
    op = "filter_range" =>
        /\ ~panicked
        /\ flt = Ascending({v \in Positions :
                     AboveLower(arg[1], KeyAt(v)) /\ BelowUpper(arg[2], KeyAt(v))})

\* C3: filter_eq(v) returns exactly the positions whose key equals v, in
\* ascending order, and never panics (an absent key gives the empty filter).
C3_EqExact ==
    op = "filter_eq" =>
        /\ ~panicked
        /\ flt = Ascending({v \in Positions : KeyAt(v) = arg[1]})

\* C3 witness: filter_eq found two records that are not neighbours.
C3_Witness ==
    /\ op = "filter_eq"
    /\ flt = <<0, 2>>

\* C4: x & y holds exactly the positions in both operands, ascending.
C4_AndIsIntersection ==
    op = "bitand" =>
        r = Ascending(Range(Reg(arg[1])) \cap Range(Reg(arg[2])))

\* C4 witness: the operands share one position and each has one of its own.
C4_Witness ==
    /\ op = "bitand"
    /\ arg = <<"a", "b">>
    /\ a = <<0, 2>>
    /\ b = <<1, 2>>
    /\ r = <<2>>

\* C5: x | y holds exactly the positions in either operand, each once,
\* ascending.
C5_OrIsUnion ==
    op = "bitor" =>
        r = Ascending(Range(Reg(arg[1])) \cup Range(Reg(arg[2])))

\* C5 witness: the right operand has a position below the left's, one in
\* common with it, and a tail after it is exhausted.
C5_Witness ==
    /\ op = "bitor"
    /\ arg = <<"a", "b">>
    /\ a = <<1>>
    /\ b = <<0, 1, 2>>
    /\ r = <<0, 1, 2>>

\* C6: filter_between(l, u) returns what filter_gte(l) & filter_lte(u)
\* returns, for every l and u.
C6_BetweenIsGteAndLte ==
    op = "filter_between" =>
        /\ ~panicked
        /\ flt = bitand(ValueOf(filter_gte(pairs, arg[1])),
                        ValueOf(filter_lte(pairs, arg[2])))

\* C7: store.filter(F) yields one reference per position of F, to the record
\* at that position, in ascending position order; a filter that covers
\* every position yields the records in insertion order; the store is as
\* it was built.
C7_FilterYieldsRecords ==
    op = "filter" =>
        /\ ~panicked
        /\ Len(out) = Len(flt)
        /\ \A i \in 1 .. Len(out) : out[i].at = flt[i] /\ out[i].val = items[flt[i] + 1]
        /\ \A i \in 1 .. Len(out) - 1 : out[i].at < out[i + 1].at
        /\ Range(flt) = Positions => [i \in 1 .. Len(out) |-> out[i].val] = items
        /\ items = StoreOf(Len(items))

\* C7 witness: a range query matched two records whose key order is the
\* reverse of their position order, and store.filter yielded them.
C7_Witness ==
    /\ op = "filter"
    /\ Len(out) = 2
    /\ out[1].at = 0 /\ out[2].at = 2
    /\ KeyAt(0) > KeyAt(2)

\* The n smallest and the n largest keys of the index.
SmallestKeys(n) == {k \in DOMAIN pairs : Cardinality({j \in DOMAIN pairs : j < k}) < n}

LargestKeys(n) == {k \in DOMAIN pairs : Cardinality({j \in DOMAIN pairs : j > k}) < n}

\* C8: first_n(n) (last_n(n)) returns the positions of all records whose key
\* is one of the n smallest (largest) keys, ascending by position; first()
\* and last() are n = 1.
C8_FirstLastN ==
    /\ op = "first_n" => flt = Ascending({v \in Positions : KeyAt(v) \in SmallestKeys(arg[1])})
    /\ op = "last_n" => flt = Ascending({v \in Positions : KeyAt(v) \in LargestKeys(arg[1])})
    /\ op = "first" => flt = Ascending({v \in Positions : KeyAt(v) \in SmallestKeys(1)})
    /\ op = "last" => flt = Ascending({v \in Positions : KeyAt(v) \in LargestKeys(1)})
    /\ op \in {"first_n", "last_n", "first", "last"} => ~panicked

\* C8 witness: first_n(2) returned three records, because the second
\* smallest key has two, and the smallest key is not at the first position.
C8_Witness ==
    /\ op = "first_n"
    /\ arg = <<2>>
    /\ flt = <<0, 1, 2>>
    /\ KeyAt(0) > KeyAt(1)

\* The orderings of a collection.
Orderings(fs) ==
    {[i \in DOMAIN fs |-> fs[p[i]]] :
        p \in {q \in [DOMAIN fs -> DOMAIN fs] : \A i, j \in DOMAIN fs : i # j => q[i] # q[j]}}

\* (f1 & f2) & f3 ...
RECURSIVE FoldAnd(_)
FoldAnd(fs) ==
    IF Len(fs) = 1 THEN fs[1]
    ELSE bitand(FoldAnd(SubSeq(fs, 1, Len(fs) - 1)), fs[Len(fs)])

FullFilter ==
    ValueOf(filter_range(get_index(items, [x \in Range(items) |-> 0]),
                         <<Unbounded, Unbounded>>))

\* C10: & and | are commutative, associative and idempotent; the empty
\* filter is the identity of |, the full filter the identity of &. The
\* last two lines: the result the program got equals the operands combined
\* in the other order.
C10_AlgebraicLaws ==
    /\ bitand(a, b) = bitand(b, a)
    /\ bitor(a, b) = bitor(b, a)
    /\ bitand(bitand(a, b), r) = bitand(a, bitand(b, r))
    /\ bitor(bitor(a, b), r) = bitor(a, bitor(b, r))
    /\ bitand(a, a) = a
    /\ bitor(a, a) = a
    /\ bitor(a, default) = a
    /\ bitor(default, a) = a
    /\ bitand(a, FullFilter) = a
    /\ bitand(FullFilter, a) = a
    /\ op = "bitand" => r = bitand(Reg(arg[2]), Reg(arg[1]))
    /\ op = "bitor" => r = bitor(Reg(arg[2]), Reg(arg[1]))

\* C10 witness: three filters that overlap pairwise and differ.
C10_Witness ==
    /\ a = <<0, 1>>
    /\ b = <<1, 2>>
    /\ r = <<0, 2>>

=============================================================================
